---- MODULE Spec2Model ----
(***************************************************************************)
(* A model of geoplot.py: the GeoPlot engine, which reduces a simulation   *)
(* state trajectory to one GeoJSON FeatureCollection per entity and writes *)
(* it, with an HTML page, to two files.                                    *)
(*                                                                         *)
(* Python sequences are 0-based and TLA+ sequences 1-based: episode i of   *)
(* the code is state_trajectory[i + 1] here, entity i is coords[i + 1],    *)
(* and the id of an entity is printed from the 0-based index.              *)
(* Instants are whole seconds since the epoch.                             *)
(***************************************************************************)
EXTENDS Integers, Sequences, FiniteSets, TLC

\* ------------------------------------------------------------------ bounds

\* Longest trajectory (episodes) the runner builds.
MaxEpisodes == 3


\* ------------------------------------------------------------------ inputs

\* The two field paths of a state snapshot that render reads.
CoordPath == "agents/consumers/coordinates"

FeaturePath == "agents/consumers/money_spent"

\* Position arrays (entity x 2, each row (lat, lon)) a snapshot may hold.
CoordArrays ==
    { << <<1, 2>>, <<3, 4>> >>,
      << <<5, 6>> >> }

\* Feature arrays a snapshot may hold, as nested lists (rows of scalars):
\* one scalar per entity in a column, or a single row.
FeatureArrays ==
    { << <<10>>, <<20>> >>,
      << <<30>>, <<40>> >>,
      << <<50>> >> }

\* A state snapshot: a mapping from field path to value.
Snapshot(c, f) == [p \in {CoordPath, FeaturePath} |-> IF p = CoordPath THEN c ELSE f]

Snapshots == { Snapshot(c, f) : c \in CoordArrays, f \in FeatureArrays }

\* The snapshot of a step that is not the last of its episode.
TransientSnapshot == Snapshot(<< <<7, 8>>, <<9, 9>> >>, << <<70>>, <<80>> >>)

\* An episode of k steps ending in snapshot s.
Episode(k, s) == [n \in 1..k |-> IF n = k THEN s ELSE TransientSnapshot]

\* config["simulation_metadata"]: both counts are positive integers.
SimulationMetadata ==
    { [name |-> "sim", num_episodes |-> ne, num_steps_per_episode |-> ns] :
      ne \in {1, 2}, ns \in {1, 2} }

\* Values of options["step_time"] (seconds, positive).
StepTimes == {1, 3600}

\* Instants pd.Timestamp.utcnow() may return: the last hour of a day, and
\* the same time one day later.
Starts == {82800, 169200}

\* The option names __init__ reads, in the order it reads them.
RequiredOptionsNoMode == <<"cesium_token", "step_time", "coordinates", "feature">>

RequiredOptions ==
    <<"cesium_token", "step_time", "coordinates", "feature", "visualization_type">>

OptionKeys == {"cesium_token", "step_time", "coordinates", "feature", "visualization_type"}

\* An options mapping: the keys it holds and the value under each.
OptionMappings ==
    { [keys |-> K,
       value |-> [cesium_token |-> "token", step_time |-> st,
                  coordinates |-> CoordPath, feature |-> FeaturePath,
                  visualization_type |-> "color"]] :
      K \in SUBSET OptionKeys, st \in StepTimes }

VARIABLES
    config,            \* the simulation config handed to GeoPlot(config, options)
    engine,            \* <<>> while no GeoPlot instance exists, else <<self>>
    initError,         \* outcome of the latest GeoPlot(...) call
    state_trajectory,  \* runner.state_trajectory: episodes of snapshots
    geodata,           \* <name>.geojson: <<>> while absent, else <<content>>
    geoplot,           \* <name>.html: <<>> while absent, else <<content>>
    prevGeodata,       \* <name>.geojson as it was before the latest render
    prevCall,          \* the render call before the latest one
    options,           \* <<>>, or <<the mapping the latest GeoPlot(...) was given>>
    call               \* the latest render call: its locals and outcome

vars == <<config, engine, initError, state_trajectory, geodata, geoplot,
          prevGeodata, prevCall, options, call>>

\* ----------------------------------------------------------------- helpers

Min(a, b) == IF a < b THEN a ELSE b

\* str(i) of a 0-based index.
Str(i) == ToString(i)

\* read_var(state, var): the value under path var.
read_var(state, var) == state[var]

\* ndarray.flatten().tolist() of a nested list: its rows, concatenated.
RECURSIVE Flatten(_)
Flatten(a) == IF a = <<>> THEN <<>> ELSE Head(a) \o Flatten(Tail(a))

\* Timestamp.isoformat(): date (days since the epoch), hour, minute, second.
IsoFormatTimeOnly(t) == <<0, (t % 86400) \div 3600, (t % 3600) \div 60, t % 60>>

IsoFormat(t) == <<t \div 86400, (t % 86400) \div 3600, (t % 3600) \div 60, t % 60>>

\* ---------------------------------------------------------------- __init__

\* options[k] raises KeyError when k is absent; the tuple of lookups is
\* evaluated left to right, so the first absent key is the one reported.
MissingOptions(opts) == SelectSeq(RequiredOptions, LAMBDA k : k \notin opts.keys)

\* The instance __init__ builds from config and a complete options mapping.
NewEngine(cfg, opts) ==
    [config |-> cfg,
     cesium_token |-> opts.value.cesium_token,
     step_time |-> opts.value.step_time,
     entity_position |-> opts.value.coordinates,
     entity_property |-> opts.value.feature,
     visualization_type |-> opts.value.visualization_type]

NoError == [kind |-> "none", key |-> ""]

\* engine = GeoPlot(config, options)
GeoPlotInit ==
    /\ engine = <<>>
    /\ \E opts \in OptionMappings :
         /\ options' = <<opts>>
         /\ IF MissingOptions(opts) # <<>>
            THEN /\ initError' = [kind |-> "KeyError", key |-> MissingOptions(opts)[1]]
                 /\ engine' = <<>>
            ELSE /\ initError' = NoError
                 /\ engine' = <<NewEngine(config, opts)>>
    /\ UNCHANGED <<config, state_trajectory, geodata, geoplot, prevGeodata,
                   prevCall, call>>

\* ------------------------------------------------------------------ render

\* Trajectory reducer: range(0, len(state_trajectory) - 1), 1-based.
RetainedEpisodesAll(traj) == 1..Len(traj)

RetainedEpisodes(traj) == 1..(Len(traj) - 1)

\* episode[-1]: the index of the final step.
FirstIndex(episode) == 1

FinalIndex(episode) == Len(episode)

\* The reducer loop from episode i on: coords is overwritten and the
\* flattened feature array appended on every iteration; reads records the
\* (episode, step) of each snapshot taken.
RECURSIVE ReduceFrom(_, _, _, _)
ReduceFrom(self, traj, i, acc) ==
    IF i \notin RetainedEpisodes(traj)
    THEN acc
    ELSE LET final_state == traj[i][FinalIndex(traj[i])]
         IN  ReduceFrom(self, traj, i + 1,
                 [coords |-> read_var(final_state, self.entity_position),
                  values |-> Append(acc.values,
                                    Flatten(read_var(final_state, self.entity_property))),
                  reads  |-> Append(acc.reads, <<i, FinalIndex(traj[i])>>)])

Reduce(self, traj) ==
    ReduceFrom(self, traj, 1, [coords |-> <<>>, values |-> <<>>, reads |-> <<>>])

\* Length of the timestamp list.
TimestampCount(metadata) == metadata.num_episodes * metadata.num_steps_per_episode

\* [start_time + Timedelta(seconds=i * step_time) for i in range(count)]
TimestampsFromNext(start_time, step_time, count) ==
    [i \in 1..count |-> start_time + i * step_time]

Timestamps(start_time, step_time, count) ==
    [i \in 1..count |-> start_time + (i - 1) * step_time]

\* zip(timestamps, values): pairs up to the end of the shorter sequence.
ZipShort(timestamps, values) ==
    [j \in 1..(Min(Len(timestamps), Len(values)) - 1) |-> <<timestamps[j], values[j]>>]

Zip(timestamps, values) ==
    [j \in 1..Min(Len(timestamps), Len(values)) |-> <<timestamps[j], values[j]>>]

\* [coord[1], coord[0]]: longitude, latitude.
CoordinatesAsRead(coord) == <<coord[1], coord[2]>>

Coordinates(coord) == <<coord[2], coord[1]>>

\* str(i) for the i-th entity of enumerate(coords).
EntityIdOneBased(i) == Str(i)

EntityId(i) == Str(i - 1)

\* value_list[i] for the i-th entity; it raises IndexError past the end.
FeatureValueFirst(value_list, i) == value_list[1]

FeatureValue(value_list, i) == value_list[i]

IndexInRange(value_list, i) == i <= Len(value_list)

\* The Feature of entity i for one (time, value_list) pair.
Feature(i, coord, time, value_list) ==
    [type |-> "Feature",
     geometry |-> [type |-> "Point", coordinates |-> Coordinates(coord)],
     properties |-> [id |-> EntityId(i),
                     value |-> FeatureValue(value_list, i),
                     time |-> IsoFormat(time)]]

\* The builder loop raises at the first value_list too short for entity i.
BuildFails(coords, pairs) ==
    \E i \in 1..Len(coords), j \in 1..Len(pairs) : ~IndexInRange(pairs[j][2], i)

\* geojsons: one FeatureCollection per entity, in coords order.
GeoJsons(coords, pairs) ==
    [i \in 1..Len(coords) |->
        [type |-> "FeatureCollection",
         features |-> [j \in 1..Len(pairs) |->
                          Feature(i, coords[i], pairs[j][1], pairs[j][2])]]]

\* json.dump(geojsons, f, ensure_ascii=False, indent=2) into a utf-8 file.
GeodataFile(geojsons) == [encoding |-> "utf-8", indent |-> 2, json |-> geojsons]

\* tmpl.substitute({...}) written to the html file.
GeoplotFile(self, timestamps, geojsons) ==
    [accessToken |-> self.cesium_token,
     startTime |-> IsoFormat(timestamps[1]),
     stopTime |-> IsoFormat(timestamps[Len(timestamps)]),
     data |-> geojsons,
     visualType |-> self.visualization_type]

NoCall ==
    [status |-> "none", start_time |-> 0, coords |-> <<>>, values |-> <<>>,
     reads |-> <<>>, timestamps |-> <<>>]

\* engine.render(state_trajectory)
Render ==
    /\ engine # <<>>
    /\ \E start_time \in Starts :
         LET self == engine[1]
             red == Reduce(self, state_trajectory)
             timestamps == Timestamps(start_time, self.step_time,
                                      TimestampCount(self.config.simulation_metadata))
             pairs == Zip(timestamps, red.values)
             locals == [start_time |-> start_time, coords |-> red.coords,
                        values |-> red.values, reads |-> red.reads,
                        timestamps |-> timestamps]
         IN  IF BuildFails(red.coords, pairs)
             THEN \* IndexError at value_list[i]: no file is opened
                  /\ call' = [status |-> "IndexError"] @@ locals
                  /\ UNCHANGED <<geodata, geoplot>>
             ELSE IF timestamps = <<>>
             THEN \* the data file is written, then timestamps[0] raises
                  /\ call' = [status |-> "IndexError"] @@ locals
                  /\ geodata' = <<GeodataFile(GeoJsons(red.coords, pairs))>>
                  /\ UNCHANGED geoplot
             ELSE /\ call' = [status |-> "ok"] @@ locals
                  /\ geodata' = <<GeodataFile(GeoJsons(red.coords, pairs))>>
                  /\ geoplot' = <<GeoplotFile(self, timestamps, GeoJsons(red.coords, pairs))>>
    /\ prevGeodata' = geodata
    /\ prevCall' = call
    /\ UNCHANGED <<config, engine, initError, options, state_trajectory>>

\* ------------------------------------------------------------- environment

\* runner.step(num_steps_per_episode): the simulation appends one episode
\* of that many steps to the trajectory.  The trajectory handed to render
\* is complete: it grows only before the first render call.
RunnerStep ==
    /\ engine # <<>>
    /\ call.status = "none"
    /\ Len(state_trajectory) < MaxEpisodes
    /\ \E s \in Snapshots :
         state_trajectory' =
             Append(state_trajectory,
                    Episode(config.simulation_metadata.num_steps_per_episode, s))
    /\ UNCHANGED <<config, engine, initError, options, geodata, geoplot,
                   prevGeodata, prevCall, call>>

Init ==
    /\ config \in { [simulation_metadata |-> m] : m \in SimulationMetadata }
    /\ engine = <<>>
    /\ initError = NoError
    /\ options = <<>>
    /\ state_trajectory = <<>>
    /\ geodata = <<>>
    /\ geoplot = <<>>
    /\ prevGeodata = <<>>
    /\ prevCall = NoCall
    /\ call = NoCall

Next == GeoPlotInit \/ RunnerStep \/ Render

Spec == Init /\ [][Next]_vars

\* ------------------------------------------------------------------ claims

\* What the claims speak of, read from the state.
Rendered == call.status # "none"

RenderedOk == call.status = "ok"

L == Len(state_trajectory)

N == config.simulation_metadata.num_episodes
        * config.simulation_metadata.num_steps_per_episode

\* The snapshot of the final step of episode e (1-based).
FinalSnapshot(e) == state_trajectory[e][Len(state_trajectory[e])]

PositionsOf(e) == FinalSnapshot(e)[CoordPath]

VectorOf(e) == Flatten(FinalSnapshot(e)[FeaturePath])

\* The document in <name>.geojson.
Doc == geodata[1].json

\* The instant an emitted time field denotes.
ParseIso(s) == s[1] * 86400 + s[2] * 3600 + s[3] * 60 + s[4]

C2_CoordinatesSwapped ==
    RenderedOk =>
        \A i \in 1..Len(Doc) : \A j \in 1..Len(Doc[i].features) :
            LET position == PositionsOf(L - 1)[i]
                lat == position[1]
                lon == position[2]
            IN  Doc[i].features[j].geometry.coordinates = <<lon, lat>>

\* C2 witness: an entity at (lat 1, lon 2) emitted at [2, 1].
C2_Witness ==
    /\ RenderedOk
    /\ Len(Doc) >= 1
    /\ Len(Doc[1].features) >= 1
    /\ PositionsOf(L - 1)[1] = <<1, 2>>
    /\ Doc[1].features[1].geometry.coordinates = <<2, 1>>

\* C3: in the FeatureCollection of entity i the j-th Feature carries the
\* value at index i of the feature vector of episode j's final step and
\* the time start + j * step_time (j counted from 0).
C3_ValuesAlignedToTimestamps ==
    RenderedOk =>
        \A i \in 1..Len(Doc) : \A j \in 1..Len(Doc[i].features) :
            /\ Doc[i].features[j].properties.value = VectorOf(j)[i]
            /\ Doc[i].features[j].properties.time
                   = IsoFormat(call.start_time + (j - 1) * engine[1].step_time)

\* C3 witness: two entities with per-episode vectors [10, 20], [30, 40]:
\* the series are 10 then 30, and 20 then 40.
C3_Witness ==
    /\ RenderedOk
    /\ Len(Doc) = 2
    /\ Len(Doc[1].features) = 2
    /\ Doc[1].features[1].properties.value = 10
    /\ Doc[1].features[2].properties.value = 30
    /\ Doc[2].features[1].properties.value = 20
    /\ Doc[2].features[2].properties.value = 40

\* C4: the timestamp list of a render call has exactly num_episodes *
\* num_steps_per_episode elements, starts at the start instant, and each
\* element is step_time after the one before, hence strictly later.
C4_TimestampSpacing ==
    Rendered =>
        /\ Len(call.timestamps) = N
        /\ call.timestamps[1] = call.start_time
        /\ \A i \in 1..(Len(call.timestamps) - 1) :
             /\ call.timestamps[i + 1] - call.timestamps[i] = engine[1].step_time
             /\ call.timestamps[i + 1] > call.timestamps[i]

\* C4 witness: a render call that generated four timestamps an hour apart.
C4_Witness ==
    /\ Rendered
    /\ Len(call.timestamps) = 4
    /\ engine[1].step_time = 3600

PairedEpisodes == 1..Min(N, L - 1)

\* C6: whenever a paired feature vector's length disagrees with the number
\* of entities in the position array, shorter or longer, render fails.
C6_ShapeMismatchFails ==
    ( /\ Rendered
      /\ L >= 2
      /\ \E j \in PairedEpisodes : Len(VectorOf(j)) # Len(PositionsOf(L - 1)) )
    => call.status = "IndexError"

\* C6, the part the code keeps: a paired vector shorter than the position
\* array makes render fail and leaves both files unwritten.
C6_ShortVectorFails ==
    ( /\ Rendered
      /\ L >= 2
      /\ \E j \in PairedEpisodes : Len(VectorOf(j)) < Len(PositionsOf(L - 1)) )
    => call.status = "IndexError" /\ geodata = <<>> /\ geoplot = <<>>

C8_EntityId ==
    RenderedOk =>
        \A i \in 1..Len(Doc) : \A j \in 1..Len(Doc[i].features) :
            Doc[i].features[j].properties.id = ToString(i - 1)

\* C8 witness: a document of two entities whose second collection carries
\* id "1" in both its Features.
C8_Witness ==
    /\ RenderedOk
    /\ Len(Doc) = 2
    /\ Len(Doc[2].features) = 2
    /\ Doc[2].features[1].properties.id = "1"
    /\ Doc[2].features[2].properties.id = "1"

====
